---------------------------- MODULE Spec2Model ----------------------------
(***************************************************************************)
(* State machine of gpmcc's View (src/src/mixtures/view.py): a CRP row     *)
(* partition (Zr, Nk, alpha) and a map of column id -> Dim.  The Dim class *)
(* (gpmcc.mixtures.dim) and gpmcc.utils.general are not part of the        *)
(* sources at hand; the few Dim methods the View calls are modelled from   *)
(* the Component Model contract of the specification (section 4.2).        *)
(*                                                                         *)
(* A cluster record of a Dim is modelled by the set of rowids whose value  *)
(* was incorporated into it (its sufficient statistics are a function of   *)
(* that set and of the fixed dataset X); its count N is the cardinality.   *)
(***************************************************************************)
EXTENDS Integers, Sequences, FiniteSets, TLC

VARIABLES Zr, Nk, alpha, dims, pc, op, twin

vars == <<Zr, Nk, alpha, dims, pc, op, twin>>

---------------------------------------------------------------------------
(* Bounds of the model.                                                    *)

\* number of rows of the dataset X (View.n_rows())
NRows == 3
\* number of column ids of the dataset X
NCols == 2
\* largest number of sweeps passed to transition(N)
MaxSweeps == 2
\* number of points of alpha_grid (30 in the source, scaled down)
AlphaGridLen == 2
\* largest N passed to simulate
MaxN == 2

Rows == 0 .. (NRows - 1)
Cols == 0 .. (NCols - 1)

\* marks an argument that was not supplied
NA == -9

---------------------------------------------------------------------------
(* Python list and dict helpers.                                           *)

\* list[k] is defined for -len <= k < len
PyValid(n, k) == (k >= -n) /\ (k < n)

\* 1-based position of list[k]
PyPos(n, k) == IF k >= 0 THEN k + 1 ELSE n + k + 1

\* del list[i] at the 1-based position i
RemoveAt(s, i) == SubSeq(s, 1, i - 1) \o SubSeq(s, i + 1, Len(s))

RECURSIVE SumSeq(_)
SumSeq(s) == IF s = <<>> THEN 0 ELSE Head(s) + SumSeq(Tail(s))

SetMin(S) == CHOOSE x \in S : \A y \in S : x <= y

SetMax(S) == CHOOSE x \in S : \A y \in S : y <= x

\* sorted(S) for a finite set of integers
RECURSIVE Sorted(_)
Sorted(S) == IF S = {} THEN <<>> ELSE <<SetMin(S)>> \o Sorted(S \ {SetMin(S)})

\* the values of a dict
Range(f) == {f[x] : x \in DOMAIN f}

\* np.bincount(Zr) of a sequence of non-negative labels indexed by rowid
Bincount(z) ==
    [k \in 1 .. (SetMax(Range(z)) + 1) |->
        Cardinality({r \in DOMAIN z : z[r] = k - 1})]

---------------------------------------------------------------------------
(* The dataset X: only the position of the missing values matters.         *)

\* np.isnan(X[c][r])
IsNan(c, r) == (c = NCols - 1) /\ (r = 0)

---------------------------------------------------------------------------
(* Dim: the methods of gpmcc.mixtures.dim.Dim that the View calls.         *)

\* a Dim object as handed to incorporate_dim or built by update_cctype
NewDim(conditional, inputs) ==
    [cond |-> conditional, inputs |-> inputs, clusters |-> <<>>,
     ignored |-> {}]

\* Dim.incorporate accepts cluster k iff 0 <= k <= len(clusters)
DimCanIncorporate(dim, k) == (0 <= k) /\ (k <= Len(dim.clusters))

\* Dim.incorporate(rowid, {c: x}, {-1: k}): k = len(clusters) opens a
\* record; a missing value is kept out of the statistics
DimIncorporate(dim, c, rowid, k) ==
    LET cl == IF k = Len(dim.clusters) THEN Append(dim.clusters, {})
              ELSE dim.clusters
    IN  IF IsNan(c, rowid)
        THEN [dim EXCEPT !.clusters = cl, !.ignored = @ \cup {rowid}]
        ELSE [dim EXCEPT !.clusters = [cl EXCEPT ![k + 1] = @ \cup {rowid}]]

\* the clusters of a Dim once rowid was deleted from the one holding it
RECURSIVE ClustersWithout(_, _)
ClustersWithout(cl, rowid) ==
    IF cl = <<>> THEN <<>>
    ELSE <<Head(cl) \ {rowid}>> \o ClustersWithout(Tail(cl), rowid)

\* Dim.unincorporate(rowid)
DimUnincorporate(dim, rowid) ==
    [dim EXCEPT !.clusters = ClustersWithout(dim.clusters, rowid),
                !.ignored = @ \ {rowid}]

---------------------------------------------------------------------------
(* Queries on the View.                                                    *)

\* View._unconditional_dims, as a set
UnconditionalDims(ds) == {d \in DOMAIN ds : ~ds[d].cond}

\* View._conditional_dims, as a set
ConditionalDims(ds) == {d \in DOMAIN ds : ds[d].cond}

\* the rows of a dict of row labels in the order of
\* sorted(Zr.items(), key=lambda e: e[1]): by label, ties in dict order
RECURSIVE RowsByLabel(_)
RowsByLabel(zr) ==
    IF DOMAIN zr = {} THEN <<>>
    ELSE LET r == CHOOSE x \in DOMAIN zr : \A y \in DOMAIN zr :
                      (zr[x] < zr[y]) \/ ((zr[x] = zr[y]) /\ (x <= y))
         IN  <<r>> \o RowsByLabel([y \in DOMAIN zr \ {r} |-> zr[y]])

\* list[:K]
PyPrefix(s, K) ==
    IF K >= 0 THEN SubSeq(s, 1, IF K < Len(s) THEN K ELSE Len(s))
    ELSE SubSeq(s, 1, IF Len(s) + K > 0 THEN Len(s) + K ELSE 0)

\* the loop of View.incorporate as it would be if every column took the
\* row into its record 0
IncorporateLoop_RecordZero(ds, todo, qcols, rowid, k) ==
    [dims |-> [d \in DOMAIN ds |->
                 DimIncorporate(
                    IF k = Len(ds[d].clusters)
                    THEN [ds[d] EXCEPT !.clusters = Append(@, {})]
                    ELSE ds[d], d, rowid, 0)],
     res  |-> "ok"]

\* the loop of View.incorporate over self.dims; qcols are the columns the
\* query has a value for
RECURSIVE IncorporateLoop(_, _, _, _, _)
IncorporateLoop(ds, todo, qcols, rowid, k) ==
    IF todo = <<>> THEN [dims |-> ds, res |-> "ok"]
    ELSE LET d == Head(todo)
         IN  IF d \notin qcols THEN [dims |-> ds, res |-> "KeyError"]
             ELSE IF ~DimCanIncorporate(ds[d], k)
             THEN [dims |-> ds, res |-> "DimError"]
             ELSE IncorporateLoop(
                    [ds EXCEPT ![d] = DimIncorporate(ds[d], d, rowid, k)],
                    Tail(todo), qcols, rowid, k)

\* View.incorporate as it would be without the line "self.Nk[k] += 1"
ViewIncorporate_NoCount(v, rowid, qcols, k) ==
    LET Nk1  == IF Len(v.Nk) = k THEN Append(v.Nk, 0) ELSE v.Nk
        Zr2  == [r \in DOMAIN v.Zr \cup {rowid} |->
                   IF r = rowid THEN k ELSE v.Zr[r]]
        loop == IncorporateLoop(v.dims, Sorted(DOMAIN v.dims), qcols,
                                rowid, k)
    IN  [Zr |-> Zr2, Nk |-> Nk1, dims |-> loop.dims, res |-> loop.res]

\* View.incorporate(rowid, query) on the view v = [Zr, Nk, dims], with
\* k = query.get(-1, 0); the trailing transition_rows(rows=[]) does nothing
ViewIncorporate(v, rowid, qcols, k) ==
    LET Nk1 == IF Len(v.Nk) = k THEN Append(v.Nk, 0) ELSE v.Nk
        n1  == Len(Nk1)
    IN  IF ~PyValid(n1, k)
        THEN [Zr |-> v.Zr, Nk |-> v.Nk, dims |-> v.dims, res |-> "IndexError"]
        ELSE LET Nk2  == [Nk1 EXCEPT ![PyPos(n1, k)] = @ + 1]
                 Zr2  == [r \in DOMAIN v.Zr \cup {rowid} |->
                            IF r = rowid THEN k ELSE v.Zr[r]]
                 loop == IncorporateLoop(v.dims, Sorted(DOMAIN v.dims),
                                         qcols, rowid, k)
             IN  [Zr |-> Zr2, Nk |-> Nk2, dims |-> loop.dims,
                  res |-> loop.res]

\* the loop "del dim.clusters[k]" of View.unincorporate over self.dims
RECURSIVE DeleteLoop(_, _, _)
DeleteLoop(ds, todo, k) ==
    IF todo = <<>> THEN [dims |-> ds, res |-> "ok"]
    ELSE LET d == Head(todo)
             n == Len(ds[d].clusters)
         IN  IF ~PyValid(n, k) THEN [dims |-> ds, res |-> "IndexError"]
             ELSE DeleteLoop(
                    [ds EXCEPT ![d].clusters = RemoveAt(@, PyPos(n, k))],
                    Tail(todo), k)

\* View.unincorporate as it would be if an emptied cluster were kept:
\* no relabelling, no deletion of the entry and of the records
ViewUnincorporate_NoCompact(v, rowid) ==
    [Zr   |-> [r \in DOMAIN v.Zr \ {rowid} |-> v.Zr[r]],
     Nk   |-> [v.Nk EXCEPT ![PyPos(Len(v.Nk), v.Zr[rowid])] = @ - 1],
     dims |-> [d \in DOMAIN v.dims |-> DimUnincorporate(v.dims[d], rowid)],
     res  |-> "ok"]

\* View.unincorporate(rowid) of an observed row on the view v
ViewUnincorporate(v, rowid) ==
    LET ds1 == [d \in DOMAIN v.dims |-> DimUnincorporate(v.dims[d], rowid)]
        k   == v.Zr[rowid]
        n   == Len(v.Nk)
        drop(zr) == [r \in DOMAIN zr \ {rowid} |-> zr[r]]
    IN  IF ~PyValid(n, k)
        THEN [Zr |-> v.Zr, Nk |-> v.Nk, dims |-> ds1, res |-> "IndexError"]
        ELSE LET p   == PyPos(n, k)
                 Nk1 == [v.Nk EXCEPT ![p] = @ - 1]
             IN  IF Nk1[p] = 0
                 THEN LET Zr1  == [r \in DOMAIN v.Zr |->
                                     IF k < v.Zr[r] THEN v.Zr[r] - 1
                                     ELSE v.Zr[r]]
                          Nk2  == RemoveAt(Nk1, p)
                          loop == DeleteLoop(ds1, Sorted(DOMAIN ds1), k)
                      IN  IF loop.res # "ok"
                          THEN [Zr |-> Zr1, Nk |-> Nk2, dims |-> loop.dims,
                                res |-> loop.res]
                          ELSE [Zr |-> drop(Zr1), Nk |-> Nk2,
                                dims |-> loop.dims, res |-> "ok"]
                 ELSE [Zr |-> drop(v.Zr), Nk |-> Nk1, dims |-> ds1,
                       res |-> "ok"]

\* the loop of View._bulk_incorporate over the rows sorted by label
RECURSIVE BulkLoop(_, _, _, _)
BulkLoop(dim, c, todo, zr) ==
    IF todo = <<>> THEN [dim |-> dim, res |-> "ok"]
    ELSE LET r == Head(todo)
         IN  IF ~DimCanIncorporate(dim, zr[r])
             THEN [dim |-> dim, res |-> "DimError"]
             ELSE BulkLoop(DimIncorporate(dim, c, r, zr[r]), c, Tail(todo), zr)

\* View._bulk_incorporate(dim) for the column c against the partition zr;
\* rows are the rows given to dim.incorporate, in the order of the calls,
\* after the methods of the Dim called once the records are rebuilt
BulkIncorporate(dim, c, zr) ==
    LET d0   == [dim EXCEPT !.clusters = <<>>, !.ignored = {}]
        loop == BulkLoop(d0, c, RowsByLabel(zr), zr)
        out(d, res, after) == [dim |-> d, res |-> res,
                               rows |-> RowsByLabel(zr), after |-> after]
    IN  IF loop.res # "ok" THEN out(loop.dim, loop.res, <<>>)
        ELSE IF DOMAIN zr = {} THEN out(loop.dim, "ValueError", <<>>)
        ELSE LET K  == SetMax(Range(zr)) + 1
                 cl == IF K < Len(loop.dim.clusters)
                       THEN PyPrefix(loop.dim.clusters, K)
                       ELSE loop.dim.clusters
             IN  IF Len(cl) # K
                 THEN out(loop.dim, "AssertionError", <<>>)
                 ELSE out([loop.dim EXCEPT !.clusters = cl], "ok",
                          <<"transition_params">>)

\* View._prepare_incorporate(cctype) raises
PrepareRaises(ds, conditional) == conditional /\ (DOMAIN ds = {})

\* View._check_partitions: TRUE iff every assertion passes
CheckPartitions(v) ==
    /\ DOMAIN v.Zr = Rows
    /\ Cardinality(DOMAIN v.Zr) = SumSeq(v.Nk)
    /\ SumSeq(v.Nk) = NRows
    /\ SetMax(Range(v.Zr)) = Len(v.Nk) - 1
    /\ \A d \in DOMAIN v.dims :
          /\ Len(v.dims[d].clusters) = Len(v.Nk)
          /\ \A k \in 1 .. Len(v.dims[d].clusters) :
                Cardinality(v.dims[d].clusters[k]) =
                    v.Nk[k] - Cardinality({r \in DOMAIN v.Zr :
                                  (v.Zr[r] = k - 1) /\ IsNan(d, r)})

\* the candidate labels as they would be with m_aux = 1 for every row
GibbsCandidates_AlwaysAux(v, rowid) == 0 .. Len(v.Nk)

\* the candidate labels of View._logpdf_row_gibbs(rowid, 1)
GibbsCandidates(v, rowid) ==
    LET own   == v.Nk[PyPos(Len(v.Nk), v.Zr[rowid])]
        m_aux == IF own = 1 THEN 0 ELSE 1
    IN  0 .. (Len(v.Nk) + m_aux - 1)

\* the length of gu.logp_crp_gibbs(Nk, Zr, rowid, alpha, 1): a weight for
\* each cluster that holds a row other than rowid, and one for a new one
LogpCrpGibbsLen(v, rowid) ==
    Cardinality({v.Zr[r] : r \in DOMAIN v.Zr \ {rowid}}) + 1

\* View._logpdf_cell_gibbs(rowid, dim, k) as it would be without
\* dim.incorporate after the evaluation
LogpdfCellGibbs_NoPutBack(dim, d, zr, rowid, k) ==
    IF zr[rowid] = k THEN DimUnincorporate(dim, rowid) ELSE dim

\* the Dim of column d after View._logpdf_cell_gibbs(rowid, dim, k): for
\* the row's own label the row is taken out, scored and put back
LogpdfCellGibbs(dim, d, zr, rowid, k) ==
    IF zr[rowid] = k
    THEN DimIncorporate(DimUnincorporate(dim, rowid), d, rowid, k)
    ELSE dim

\* the Dim of column d after its cells were scored for the candidates todo
RECURSIVE ScoreCells(_, _, _, _, _)
ScoreCells(dim, d, zr, rowid, todo) ==
    IF todo = <<>> THEN dim
    ELSE ScoreCells(LogpdfCellGibbs(dim, d, zr, rowid, Head(todo)),
                    d, zr, rowid, Tail(todo))

\* the view after View._logpdf_row_gibbs(rowid, 1) scored the candidates
LogpdfRowGibbs(v, rowid) ==
    [Zr   |-> v.Zr,
     Nk   |-> v.Nk,
     dims |-> [d \in DOMAIN v.dims |->
                 ScoreCells(v.dims[d], d, v.Zr, rowid,
                            Sorted(GibbsCandidates(v, rowid)))]]

\* View._transition_row(rowid) when log_pflip draws z_b; scored is the view
\* when the scoring is over, ndata and ncrp the lengths of logp_data and
\* logp_crp
TransitionRow(v, rowid, z_b) ==
    LET s     == LogpdfRowGibbs(v, rowid)
        ndata == Cardinality(GibbsCandidates(v, rowid))
        ncrp  == LogpCrpGibbsLen(v, rowid)
        out(m, res) == [Zr |-> m.Zr, Nk |-> m.Nk, dims |-> m.dims,
                        res |-> res, scored |-> s, ndata |-> ndata,
                        ncrp |-> ncrp]
    IN  IF ndata # ncrp THEN out(s, "AssertionError")
        ELSE LET moved == IF z_b # s.Zr[rowid]
                          THEN LET u == ViewUnincorporate(s, rowid)
                               IN  IF u.res # "ok" THEN u
                                   ELSE ViewIncorporate(u, rowid,
                                            DOMAIN u.dims, z_b)
                          ELSE [Zr |-> s.Zr, Nk |-> s.Nk, dims |-> s.dims,
                                res |-> "ok"]
             IN  IF moved.res # "ok" THEN out(moved, moved.res)
                 ELSE IF ~CheckPartitions(moved)
                 THEN out(moved, "AssertionError")
                 ELSE out(moved, "ok")

\* a multiset, as the map from each member of the sequence s to the number
\* of its occurrences
Multiset(s) ==
    [x \in Range(s) |-> Cardinality({i \in DOMAIN s : s[i] = x})]

\* Dim.logpdf_score(): the marginal likelihood of the column, a symmetric
\* function of the statistics of its cluster records
DimLogpdfScore(dim) == [cond |-> dim.cond, stats |-> Multiset(dim.clusters)]

\* View.logpdf_score(): gu.logp_crp(len(Zr), Nk, alpha), the CRP marginal
\* of the partition (symmetric in Nk), and the scores of the columns
LogpdfScore(v, a) ==
    [crp  |-> [n |-> Cardinality(DOMAIN v.Zr), counts |-> Multiset(v.Nk),
               alpha |-> a],
     dims |-> [d \in DOMAIN v.dims |-> DimLogpdfScore(v.dims[d])]]

\* View._is_hypothetical(rowid)
IsHypothetical(zr, rowid) ==
    ~((0 <= rowid) /\ (rowid < Cardinality(DOMAIN zr)))

\* the value None of Python
PyNone == -8

EmptyMap == [x \in {} |-> x]

\* stands for "no view recorded" in the record of the last operation
NoView == [Zr |-> EmptyMap, Nk |-> <<>>, dims |-> EmptyMap]

\* the record of the last operation; before is the view an unincorporate,
\* an update_cctype or a row-transition step started from, kept by the
\* incorporate that puts the same row back under the same label (undo);
\* scored is the view a row-transition step had when its scoring was over;
\* rows and after are those of the _bulk_incorporate of an incorporate_dim
NoOp ==
    [name |-> "init", rowid |-> NA, label |-> NA, col |-> NA, res |-> "ok",
     cond |-> FALSE, reassign |-> FALSE, observed |-> FALSE, lpE |-> <<>>,
     query |-> {}, evidence |-> {}, trans |-> <<>>, n |-> 0,
     samples |-> <<>>, kernels |-> <<0, 0, 0>>, cols |-> {},
     done |-> FALSE, undo |-> FALSE, before |-> NoView,
     scored |-> NoView, ndata |-> 0, ncrp |-> 0, rows |-> <<>>,
     after |-> <<>>]

\* no transition(N) is running; otherwise sweeps counts the rounds left of
\* the n asked for, todo the rows left of the sweep, visited the rows it
\* has visited, kernels the row sweeps, alpha transitions and
\* hyperparameter transitions completed by the call
Idle ==
    [phase |-> "idle", todo |-> <<>>, sweeps |-> 0, n |-> 0,
     visited |-> <<>>, kernels |-> <<0, 0, 0>>]

\* the view as one value
View == [Zr |-> Zr, Nk |-> Nk, dims |-> dims]

\* what a call returned: its outcome, the samples of a simulate, and for
\* each sample the cluster and the weighted draw its values were taken from
Ret(res, samples, drawn) ==
    [res |-> res, samples |-> samples, drawn |-> drawn]

NoRet == Ret("ok", <<>>, <<>>)

\* twin is a second View, constructed with the arguments and the seed of
\* the first and given the same calls: its Zr, Nk, alpha and dims, what its
\* last call returned (ret) and what the same call returned in the first
\* view (mine); NoTwin when only one view is built
NoTwin ==
    [Zr |-> EmptyMap, Nk |-> <<>>, alpha |-> 0, dims |-> EmptyMap,
     ret |-> NoRet, mine |-> NoRet]

\* only one view is built
Alone == UNCHANGED twin

---------------------------------------------------------------------------
(* Construction.                                                           *)

\* the labels of a starting partition are exactly 0..K-1
Contiguous(z) == Range(z) = 0 .. SetMax(Range(z))

\* the n of self.alpha_grid = log_linspace(1/n, n, 30): self.n_rows() when
\* the view is constructed; alpha_grid is assigned nowhere else
AlphaGridRows == NRows

\* every point of log_linspace(1/n, n, L) lies in [1/m, m]: its end points
\* 1/n and n do iff 1 <= n <= m
GridWithin(n, m) == (1 <= n) /\ (n <= m)

\* View.__init__(X, alpha, Zr) for the starting partition z; alpha is an
\* index of alpha_grid, or 0 for a positive value supplied by the caller
Construct(z) ==
    /\ Zr = z
    /\ Nk = Bincount(z)
    /\ alpha \in 0 .. AlphaGridLen
    /\ dims = EmptyMap
    /\ pc = Idle
    /\ op = NoOp

\* construction with a starting partition labelled 0..K-1, as
\* simulate_crp draws it
Init ==
    /\ \E z \in [Rows -> Rows] : Contiguous(z) /\ Construct(z)
    /\ twin = NoTwin

---------------------------------------------------------------------------
(* Rows.                                                                   *)

\* k = query.get(-1, 0), label = NA when the query has no key -1
QueryLabel(label) == IF label = NA THEN 0 ELSE label

\* transition = [rowid] if k is None else []
IncorporateTransition(rowid, k) == IF k = PyNone THEN <<rowid>> ELSE <<>>

\* View.incorporate(rowid, query) of a fresh rowid, the query holding a
\* value for the columns qcols and the label (or none)
Incorporate(rowid, qcols, label) ==
    /\ pc.phase = "idle"
    /\ rowid \notin DOMAIN Zr
    /\ LET k     == QueryLabel(label)
           trans == IncorporateTransition(rowid, k)
           v     == ViewIncorporate(View, rowid, qcols, k)
       IN  \E z_b \in (IF trans = <<>> \/ v.res # "ok" THEN {NA}
                       ELSE GibbsCandidates(v, rowid)) :
           \E w \in {IF z_b = NA THEN v ELSE TransitionRow(v, rowid, z_b)} :
             LET undo == /\ op.name = "unincorporate"
                         /\ op.res = "ok"
                         /\ op.rowid = rowid
                         /\ op.label = label
             IN  /\ Zr' = w.Zr
                 /\ Nk' = w.Nk
                 /\ dims' = w.dims
                 /\ op' = [NoOp EXCEPT !.name = "incorporate",
                              !.rowid = rowid, !.label = label,
                              !.res = w.res, !.trans = trans,
                              !.undo = undo,
                              !.before = IF undo THEN op.before ELSE NoView]
    /\ UNCHANGED <<alpha, pc>>

\* View.unincorporate(rowid) of an observed row
Unincorporate(rowid) ==
    /\ pc.phase = "idle"
    /\ rowid \in DOMAIN Zr
    /\ \E v \in {ViewUnincorporate(View, rowid)} :
           /\ Zr' = v.Zr
           /\ Nk' = v.Nk
           /\ dims' = v.dims
           /\ op' = [NoOp EXCEPT !.name = "unincorporate", !.rowid = rowid,
                        !.label = Zr[rowid], !.res = v.res,
                        !.before = View]
    /\ UNCHANGED <<alpha, pc>>

---------------------------------------------------------------------------
(* Columns.                                                                *)

\* the inputs of a Dim of column c built against the view: none for an
\* unconditional family, the other unconditional columns otherwise
DimInputs(ds, c, conditional) ==
    IF conditional THEN UnconditionalDims(ds) \ {c} ELSE {}

\* View.incorporate_dim(dim, reassign) on the dims ds and partition zr
ViewIncorporateDim(ds, zr, c, dim, reassign) ==
    LET attach(d) == [x \in DOMAIN ds \cup {c} |-> IF x = c THEN d ELSE ds[x]]
        out(d, res, rows, after) == [dims |-> d, res |-> res,
                                     rows |-> rows, after |-> after]
    IN  IF reassign
        THEN IF PrepareRaises(ds, dim.cond)
             THEN out(ds, "ValueError", <<>>, <<>>)
             ELSE LET b == BulkIncorporate(dim, c, zr)
                  IN  IF b.res # "ok" THEN out(ds, b.res, b.rows, b.after)
                      ELSE out(attach(b.dim), "ok", b.rows, b.after)
        ELSE out(attach(dim), "ok", <<>>, <<>>)

\* a Dim of column c whose row partition matches zr already
MatchingDim(zr, c, conditional, inputs) ==
    LET b == BulkLoop(NewDim(conditional, inputs), c, RowsByLabel(zr), zr)
    IN  b.dim

\* View.incorporate_dim(dim, reassign) for a Dim of column c
IncorporateDim(c, conditional, reassign) ==
    /\ pc.phase = "idle"
    /\ LET inputs == DimInputs(dims, c, conditional)
           dim    == IF reassign THEN NewDim(conditional, inputs)
                     ELSE MatchingDim(Zr, c, conditional, inputs)
       IN  \E r \in {ViewIncorporateDim(dims, Zr, c, dim, reassign)} :
           /\ dims' = r.dims
           /\ op' = [NoOp EXCEPT !.name = "incorporate_dim", !.col = c,
                        !.cond = conditional, !.reassign = reassign,
                        !.res = r.res, !.rows = r.rows, !.after = r.after]
    /\ UNCHANGED <<Zr, Nk, alpha, pc>>

\* View.unincorporate_dim(dim) for the Dim of column c
UnincorporateDim(c) ==
    /\ pc.phase = "idle"
    /\ IF c \in DOMAIN dims
       THEN /\ dims' = [x \in DOMAIN dims \ {c} |-> dims[x]]
            /\ op' = [NoOp EXCEPT !.name = "unincorporate_dim", !.col = c,
                         !.cond = dims[c].cond]
       ELSE /\ dims' = dims
            /\ op' = [NoOp EXCEPT !.name = "unincorporate_dim", !.col = c,
                         !.res = "KeyError"]
    /\ UNCHANGED <<Zr, Nk, alpha, pc>>

\* View.update_cctype as it would be without the removal of the
\* self-reference from the inputs
ViewUpdateCctype_SelfInput(ds, zr, col, conditional) ==
    IF PrepareRaises(ds, conditional) THEN [dims |-> ds, res |-> "ValueError"]
    ELSE IF col \notin DOMAIN ds THEN [dims |-> ds, res |-> "KeyError"]
    ELSE LET D_new == NewDim(conditional, IF conditional
                                          THEN UnconditionalDims(ds) ELSE {})
             ds1   == [x \in DOMAIN ds \ {col} |-> ds[x]]
         IN  ViewIncorporateDim(ds1, zr, col, D_new, TRUE)

\* View.update_cctype(col, cctype) on the dims ds and partition zr
ViewUpdateCctype(ds, zr, col, conditional) ==
    IF PrepareRaises(ds, conditional) THEN [dims |-> ds, res |-> "ValueError"]
    ELSE IF col \notin DOMAIN ds THEN [dims |-> ds, res |-> "KeyError"]
    ELSE LET D_new == NewDim(conditional, DimInputs(ds, col, conditional))
             ds1   == [x \in DOMAIN ds \ {col} |-> ds[x]]
         IN  ViewIncorporateDim(ds1, zr, col, D_new, TRUE)

\* View.update_cctype(col, cctype)
UpdateCctype(col, conditional) ==
    /\ pc.phase = "idle"
    /\ \E r \in {ViewUpdateCctype(dims, Zr, col, conditional)} :
           /\ dims' = r.dims
           /\ op' = [NoOp EXCEPT !.name = "update_cctype", !.col = col,
                        !.cond = conditional, !.res = r.res,
                        !.before = View]
    /\ UNCHANGED <<Zr, Nk, alpha, pc>>

---------------------------------------------------------------------------
(* Inference: transition(N) runs as a sequence of kernel steps.            *)

\* the start of a round of View.transition: transition_rows() takes the
\* rows of the partition at that moment; without rows the sweep is over
StartSweep(p, zr) ==
    IF DOMAIN zr = {}
    THEN [p EXCEPT !.phase = "alpha", !.todo = <<>>, !.visited = <<>>,
                   !.kernels[1] = @ + 1]
    ELSE [p EXCEPT !.phase = "rows", !.todo = Sorted(DOMAIN zr),
                   !.visited = <<>>]

\* View.transition(N) is called
Transition(N) ==
    /\ pc.phase = "idle"
    /\ pc' = IF N = 0 THEN Idle
             ELSE StartSweep([Idle EXCEPT !.sweeps = N, !.n = N], Zr)
    /\ op' = [NoOp EXCEPT !.name = "transition", !.n = N]
    /\ UNCHANGED <<Zr, Nk, alpha, dims>>

\* one iteration of the loop of View.transition_rows: _transition_row
TransitionRowStep ==
    /\ pc.phase = "rows"
    /\ LET rowid == Head(pc.todo)
       IN  \E z_b \in GibbsCandidates(View, rowid) :
             \E w \in {TransitionRow(View, rowid, z_b)} :
                 /\ Zr' = w.Zr
                 /\ Nk' = w.Nk
                 /\ dims' = w.dims
                 /\ pc' = IF w.res # "ok" THEN Idle
                          ELSE IF Tail(pc.todo) = <<>>
                          THEN [pc EXCEPT !.phase = "alpha", !.todo = <<>>,
                                          !.visited = Append(@, rowid),
                                          !.kernels[1] = @ + 1]
                          ELSE [pc EXCEPT !.todo = Tail(@),
                                          !.visited = Append(@, rowid)]
                 /\ op' = [NoOp EXCEPT !.name = "transition_row",
                              !.rowid = rowid, !.label = z_b, !.res = w.res,
                              !.n = pc.n, !.before = View,
                              !.scored = w.scored, !.ndata = w.ndata,
                              !.ncrp = w.ncrp]
    /\ UNCHANGED alpha

\* View.transition_alpha: alpha becomes a point of alpha_grid
TransitionAlpha ==
    /\ pc.phase = "alpha"
    /\ alpha' \in 1 .. AlphaGridLen
    /\ pc' = [pc EXCEPT !.phase = "hypers", !.kernels[2] = @ + 1]
    /\ op' = [NoOp EXCEPT !.name = "transition_alpha", !.n = pc.n]
    /\ UNCHANGED <<Zr, Nk, dims>>

\* View.transition_alpha called on its own
CallTransitionAlpha ==
    /\ pc.phase = "idle"
    /\ alpha' \in 1 .. AlphaGridLen
    /\ op' = [NoOp EXCEPT !.name = "transition_alpha"]
    /\ UNCHANGED <<Zr, Nk, dims, pc>>

\* the loop of View.transition after a round as it would be with one
\* round too many
AfterRound_OneMore(p, zr) ==
    IF p.sweeps > 0 THEN StartSweep([p EXCEPT !.sweeps = @ - 1], zr)
    ELSE Idle

\* the loop "for _ in xrange(N)" of View.transition after a round
AfterRound(p, zr) ==
    IF p.sweeps > 1 THEN StartSweep([p EXCEPT !.sweeps = @ - 1], zr)
    ELSE Idle

\* View.transition_column_hypers() over self.dims.keys(), then the next
\* round of View.transition or its return
TransitionColumnHypers ==
    /\ pc.phase = "hypers"
    /\ \E p \in {[pc EXCEPT !.kernels[3] = @ + 1]} :
         /\ pc' = AfterRound(p, Zr)
         /\ op' = [NoOp EXCEPT !.name = "transition_column_hypers",
                      !.cols = DOMAIN dims, !.n = pc.n,
                      !.kernels = p.kernels,
                      !.done = (AfterRound(p, Zr) = Idle)]
    /\ UNCHANGED <<Zr, Nk, alpha, dims>>

---------------------------------------------------------------------------
(* logpdf and simulate.                                                    *)

\* the evidence of an observed row after View._populate_evidence: the
\* attached columns outside the query, and the evidence given
PopulatedEvidence(ds, query, evidence) == (DOMAIN ds \ query) \cup evidence

\* View.no_leafs(query, evidence)
NoLeafs(ds, query, evidence) ==
    (query \cup evidence) \subseteq UnconditionalDims(ds)

\* the length of a joint draw of View._weighted_samples: every root once,
\* every leaf once (lfs_obs is always empty, "e in lfs" comparing a pair
\* with column ids), and the leaves of the evidence once more
SampleLen(ds, evidence) ==
    Cardinality(DOMAIN ds) + Cardinality(evidence \cap ConditionalDims(ds))

\* View._simulate_joint raises: on the importance path
\* _importance_resample reads samples[i][q], q a column id
SimulateJointRaises(ds, query, evidence) ==
    /\ ~NoLeafs(ds, query, evidence)
    /\ \E q \in query : q >= SampleLen(ds, evidence)

\* the columns of a joint draw of View._weighted_samples in the order of
\* sorted(ra+la), for the attached columns todo in sorted order: a root
\* once, a leaf once, a leaf of the evidence twice
RECURSIVE JointDrawCols(_, _, _)
JointDrawCols(ds, todo, evidence) ==
    IF todo = <<>> THEN <<>>
    ELSE LET c == Head(todo)
         IN  (IF ds[c].cond /\ (c \in evidence) THEN <<c, c>> ELSE <<c>>)
                 \o JointDrawCols(ds, Tail(todo), evidence)

\* the columns View._weighted_samples simulates: rts_mis, the roots
\* without evidence, and lfs_mis, every leaf (lfs_obs is always empty)
SimulatedCols(ds, evidence) ==
    (UnconditionalDims(ds) \ evidence) \cup ConditionalDims(ds)

\* one sample of View._importance_resample, [samples[i][q] for q in query]:
\* for each query column the column whose drawn value is returned
ImportanceSample(ds, query, evidence) ==
    LET draw == JointDrawCols(ds, Sorted(DOMAIN ds), evidence)
        q    == Sorted(query)
    IN  [i \in DOMAIN q |-> draw[q[i] + 1]]

\* View._simulate_joint(query, evidence, k, N) as it would be if the exact
\* path looped over xrange(N-1)
SimulateJoint_OneShort(ds, query, evidence, N) ==
    IF NoLeafs(ds, query, evidence)
    THEN [i \in 1 .. (N - 1) |-> Sorted(query)]
    ELSE [i \in 1 .. N |-> ImportanceSample(ds, query, evidence)]

\* View._simulate_joint(query, evidence, k, N) when it returns: N samples,
\* each the list of the columns whose values it holds
SimulateJoint(ds, query, evidence, N) ==
    IF NoLeafs(ds, query, evidence)
    THEN [i \in 1 .. N |-> Sorted(query)]
    ELSE [i \in 1 .. N |-> ImportanceSample(ds, query, evidence)]

\* counts = {k: n for k, n in enumerate(np.bincount(ks)) if n > 0}
ClusterCounts(ks) ==
    LET ls == {ks[i] : i \in DOMAIN ks}
    IN  [k \in ls |-> Cardinality({i \in DOMAIN ks : ks[i] = k})]

\* the samples of View._simulate_hypothetical for the clusters todo of
\* counts, flattened
RECURSIVE SimulateClusters(_, _, _, _, _)
SimulateClusters(ds, query, evidence, counts, todo) ==
    IF todo = <<>> THEN <<>>
    ELSE SimulateJoint(ds, query, evidence, counts[Head(todo)])
            \o SimulateClusters(ds, query, evidence, counts, Tail(todo))

\* View._simulate_hypothetical(query, evidence, N) when log_pflip draws the
\* clusters ks
SimulateHypothetical(ds, query, evidence, ks) ==
    LET counts == ClusterCounts(ks)
    IN  SimulateClusters(ds, query, evidence, counts, Sorted(DOMAIN counts))

\* the draws ks = log_pflip(lp_cluster, size=N) of a hypothetical simulate:
\* N clusters among the candidates of finite weight
ClusterDraws(zr, name, rowid, lpE, N) ==
    IF (name = "simulate") /\ IsHypothetical(zr, rowid)
       /\ (\E k \in DOMAIN lpE : lpE[k])
    THEN [1 .. N -> {k - 1 : k \in {j \in DOMAIN lpE : lpE[j]}}]
    ELSE {<<>>}

\* the outcome of View.logpdf / View.simulate(N) for the columns of the
\* query and of the evidence; lpE[k+1] tells whether the evidence has a
\* finite log likelihood under the candidate cluster k, ks are the clusters
\* drawn for a hypothetical row
QueryOutcome(ds, zr, name, rowid, query, evidence, lpE, ks, N) ==
    IF IsHypothetical(zr, rowid)
    THEN IF \A k \in DOMAIN lpE : ~lpE[k]
         THEN [observed |-> FALSE, label |-> NA, res |-> "InfEvidence",
               samples |-> <<>>]
         ELSE IF name # "simulate"
         THEN [observed |-> FALSE, label |-> NA, res |-> "ok",
               samples |-> <<>>]
         ELSE IF SimulateJointRaises(ds, query, evidence)
         THEN [observed |-> FALSE, label |-> NA, res |-> "IndexError",
               samples |-> <<>>]
         ELSE [observed |-> FALSE, label |-> NA, res |-> "ok",
               samples |-> SimulateHypothetical(ds, query, evidence, ks)]
    ELSE IF query = {}
    THEN [observed |-> TRUE, label |-> NA, res |-> "IndexError",
          samples |-> <<>>]
    ELSE IF rowid \notin DOMAIN zr
    THEN [observed |-> TRUE, label |-> NA, res |-> "KeyError",
          samples |-> <<>>]
    ELSE LET ev == PopulatedEvidence(ds, query, evidence)
         IN  IF name # "simulate"
             THEN [observed |-> TRUE, label |-> zr[rowid], res |-> "ok",
                   samples |-> <<>>]
             ELSE IF SimulateJointRaises(ds, query, ev)
             THEN [observed |-> TRUE, label |-> zr[rowid],
                   res |-> "IndexError", samples |-> <<>>]
             ELSE [observed |-> TRUE, label |-> zr[rowid], res |-> "ok",
                   samples |-> SimulateJoint(ds, query, ev, N)]

\* the vectors lp_evidence tried for the K+1 candidates: finite under
\* every candidate, under none, under cluster 0 only, under the new
\* cluster only; evidence on no attached column weighs 0 under every
\* candidate (_weighted_samples keeps the evidence of roots and leafs only)
EvidenceVectors(ds, zr, nk, rowid, evidence) ==
    LET cand == 1 .. (Len(nk) + 1)
    IN  IF ~IsHypothetical(zr, rowid) THEN {<<>>}
        ELSE IF evidence \cap DOMAIN ds = {} THEN {[k \in cand |-> TRUE]}
        ELSE {[k \in cand |-> k \in F] :
                 F \in {cand, {}, {1}, {Len(nk) + 1}}}

\* the record of a query whose outcome is r
QueryRecord(name, rowid, query, evidence, N, lpE, r) ==
    [NoOp EXCEPT !.name = name, !.rowid = rowid, !.query = query,
                 !.evidence = evidence, !.observed = r.observed,
                 !.label = r.label, !.lpE = lpE, !.res = r.res, !.n = N,
                 !.samples = r.samples]

\* a query as it would be if scoring the new candidate cluster K of a
\* hypothetical row opened a record K in the columns it reads
Query_OpensRecord(name, rowid, query, evidence, N) ==
    /\ pc.phase = "idle"
    /\ \E lpE \in EvidenceVectors(dims, Zr, Nk, rowid, evidence) :
         \E ks \in ClusterDraws(Zr, name, rowid, lpE, N) :
           \E r \in {QueryOutcome(dims, Zr, name, rowid, query, evidence,
                                  lpE, ks, N)} :
               op' = QueryRecord(name, rowid, query, evidence, N, lpE, r)
    /\ dims' = [d \in DOMAIN dims |->
                  IF IsHypothetical(Zr, rowid) /\ (d \in query \cup evidence)
                  THEN [dims[d] EXCEPT !.clusters = Append(@, {})]
                  ELSE dims[d]]
    /\ UNCHANGED <<Zr, Nk, alpha, pc>>

\* View.logpdf(rowid, query, evidence) and, with N >= 1,
\* View.simulate(rowid, query, evidence, N)
Query(name, rowid, query, evidence, N) ==
    /\ pc.phase = "idle"
    /\ \E lpE \in EvidenceVectors(dims, Zr, Nk, rowid, evidence) :
         \E ks \in ClusterDraws(Zr, name, rowid, lpE, N) :
           \E r \in {QueryOutcome(dims, Zr, name, rowid, query, evidence,
                                  lpE, ks, N)} :
               op' = QueryRecord(name, rowid, query, evidence, N, lpE, r)
    /\ UNCHANGED <<Zr, Nk, alpha, dims, pc>>

Logpdf(rowid, query, evidence) == Query("logpdf", rowid, query, evidence, 0)

Simulate(rowid, query, evidence, N) ==
    Query("simulate", rowid, query, evidence, N)

---------------------------------------------------------------------------
(* The calls with the arguments the docstrings ask for.                    *)

\* the labels passed to incorporate: none, 0..K, and K+1 (rejected)
Labels == {NA} \cup (0 .. (Len(Nk) + 1))

\* the operations that change the view, and the kernels of transition
Next ==
    \/ \E rowid \in Rows, label \in Labels :
         Incorporate(rowid, DOMAIN dims, label) /\ Alone
    \/ \E rowid \in Rows : Unincorporate(rowid) /\ Alone
    \/ \E c \in Cols, conditional \in BOOLEAN, reassign \in BOOLEAN :
         IncorporateDim(c, conditional, reassign) /\ Alone
    \/ \E c \in Cols : UnincorporateDim(c) /\ Alone
    \/ \E c \in Cols, conditional \in BOOLEAN :
         UpdateCctype(c, conditional) /\ Alone
    \/ \E N \in 0 .. MaxSweeps : Transition(N) /\ Alone
    \/ TransitionRowStep /\ Alone
    \/ TransitionAlpha /\ Alone
    \/ TransitionColumnHypers /\ Alone
    \/ CallTransitionAlpha /\ Alone

Spec == Init /\ [][Next]_vars

\* the rowids of queries: the hypothetical -1 and the rows of X
QueryRows == -1 .. (NRows - 1)

\* rows and columns come and go, and the view is queried in between, on
\* attached columns and on columns that are not attached
NextQuery ==
    \/ \E rowid \in Rows, label \in Labels :
         Incorporate(rowid, DOMAIN dims, label) /\ Alone
    \/ \E rowid \in Rows : Unincorporate(rowid) /\ Alone
    \/ \E c \in Cols, conditional \in BOOLEAN :
         IncorporateDim(c, conditional, TRUE) /\ Alone
    \/ \E c \in Cols : UnincorporateDim(c) /\ Alone
    \/ \E rowid \in QueryRows, query \in SUBSET Cols :
         \E evidence \in SUBSET (Cols \ query) :
           Logpdf(rowid, query, evidence) /\ Alone
    \/ \E rowid \in QueryRows, query \in SUBSET Cols :
         \E evidence \in SUBSET (Cols \ query) :
           Simulate(rowid, query, evidence, 1) /\ Alone

\* construction with an alpha supplied by the caller
InitQuery == Init /\ (alpha = 0)

SpecQuery == InitQuery /\ [][NextQuery]_vars

\* columns come and go, and N samples are simulated
NextSimulate ==
    \/ \E c \in Cols, conditional \in BOOLEAN :
         IncorporateDim(c, conditional, TRUE) /\ Alone
    \/ \E c \in Cols : UnincorporateDim(c) /\ Alone
    \/ \E rowid \in QueryRows, query \in SUBSET Cols :
         \E evidence \in SUBSET (Cols \ query), N \in 1 .. MaxN :
           Simulate(rowid, query, evidence, N) /\ Alone

SpecSimulate == InitQuery /\ [][NextSimulate]_vars

\* construction with any starting partition np.bincount accepts
InitRaw ==
    /\ \E z \in [Rows -> Rows] : Construct(z)
    /\ twin = NoTwin

\* the labels passed to incorporate, the negative -1 included
RawLabels == {NA} \cup (-1 .. (Len(Nk) + 1))

\* Nk keeps its empty entries once labels alias: its length and counts
\* are capped
RawBounded ==
    /\ Len(Nk) <= NRows
    /\ \A i \in DOMAIN Nk : (0 <= Nk[i]) /\ (Nk[i] <= NRows)

\* rows come and go with any label, in a view without columns
NextRaw ==
    \/ \E rowid \in Rows, label \in RawLabels :
         RawBounded /\ Incorporate(rowid, DOMAIN dims, label) /\ Alone
    \/ \E rowid \in Rows : RawBounded /\ Unincorporate(rowid) /\ Alone

SpecRaw == InitRaw /\ [][NextRaw]_vars

\* rows come and go in a view with unconditional columns, the query of
\* incorporate holding a value for any set of columns
NextValues ==
    \/ \E rowid \in Rows, label \in Labels, qcols \in SUBSET Cols :
         Incorporate(rowid, qcols, label) /\ Alone
    \/ \E rowid \in Rows : Unincorporate(rowid) /\ Alone
    \/ \E c \in Cols : IncorporateDim(c, FALSE, TRUE) /\ Alone

SpecValues == InitQuery /\ [][NextValues]_vars

---------------------------------------------------------------------------
(* Two views with one seed.                                                *)

\* the random choices of the View, by the line of view.py that draws them:
\* the initial alpha, the initial partition, the alpha of transition_alpha,
\* the clusters of a hypothetical simulate, the indices of
\* _importance_resample, the label of a row-transition step
DrawSites == {65, 70, 205, 283, 325, 387}

\* the generators as they would be if the row-transition step drew from
\* the generator of the process
Generator_GlobalRowDraw(line) ==
    IF line = 387 THEN "global" ELSE "self.rng"

\* the generator passed to the random choice made at a line of DrawSites:
\* each call there is given rng=self.rng
Generator(line) == "self.rng"

\* the draws the second view may receive where the first received mine
\* among the outcomes S: two generators seeded alike and advanced alike
\* hand out the same value, while a generator of the process serves both
\* views and hands the second a value of its own
TwinDraw(line, mine, S) ==
    IF Generator(line) = "self.rng" THEN {mine} ELSE S

\* the second view as one value
TwinView == [Zr |-> twin.Zr, Nk |-> twin.Nk, dims |-> twin.dims]

\* the number of weighted draws _importance_resample picks from
MaxPick == 2

\* the indices log_pflip(weights, size=N) draws in _importance_resample for
\* the n samples of a simulate; none on the exact path
ResampleDraws(ds, query, evidence, n) ==
    IF NoLeafs(ds, query, evidence) THEN {<<>>}
    ELSE [1 .. n -> 1 .. MaxPick]

\* View(X) and a second View(X) with the same seed: alpha and the partition
\* are drawn in __init__
InitTwin ==
    LET crp == {z \in [Rows -> Rows] : Contiguous(z)}
    IN  \E z \in crp, a \in 1 .. AlphaGridLen :
          /\ Construct(z)
          /\ alpha = a
          /\ \E zt \in TwinDraw(70, z, crp) :
               \E at \in TwinDraw(65, a, 1 .. AlphaGridLen) :
                 twin = [NoTwin EXCEPT !.Zr = zt, !.Nk = Bincount(zt),
                                       !.alpha = at]

\* the second view after a call that left it as w and returned w.res, the
\* first having returned res
TwinAfter(w, res) ==
    [twin EXCEPT !.Zr = w.Zr, !.Nk = w.Nk, !.dims = w.dims,
                 !.ret = Ret(w.res, <<>>, <<>>),
                 !.mine = Ret(res, <<>>, <<>>)]

\* incorporate(rowid, query) in both views
TwinIncorporate(rowid, label) ==
    /\ Incorporate(rowid, DOMAIN dims, label)
    /\ \E w \in {ViewIncorporate(TwinView, rowid, DOMAIN twin.dims,
                                 QueryLabel(label))} :
         twin' = TwinAfter(w, op'.res)

\* unincorporate(rowid) in both views
TwinUnincorporate(rowid) ==
    /\ Unincorporate(rowid)
    /\ \E w \in {ViewUnincorporate(TwinView, rowid)} :
         twin' = TwinAfter(w, op'.res)

\* incorporate_dim(dim) in both views, each with a Dim of its own
TwinIncorporateDim(c, conditional) ==
    /\ IncorporateDim(c, conditional, TRUE)
    /\ LET dim == NewDim(conditional, DimInputs(twin.dims, c, conditional))
       IN  \E r \in {ViewIncorporateDim(twin.dims, twin.Zr, c, dim, TRUE)} :
             twin' = [twin EXCEPT !.dims = r.dims,
                                  !.ret = Ret(r.res, <<>>, <<>>),
                                  !.mine = Ret(op'.res, <<>>, <<>>)]

\* transition(N) is called in both views
TwinTransition(N) ==
    /\ Transition(N)
    /\ twin' = [twin EXCEPT !.ret = NoRet, !.mine = NoRet]

\* _transition_row(rowid) in both views: z_b is drawn at line 387
TwinTransitionRowStep ==
    /\ TransitionRowStep
    /\ \E zt \in TwinDraw(387, op'.label,
                           GibbsCandidates(TwinView, op'.rowid)) :
         \E w \in {TransitionRow(TwinView, op'.rowid, zt)} :
           twin' = TwinAfter(w, op'.res)

\* transition_alpha in both views: the index is drawn at line 205
TwinTransitionAlpha ==
    /\ TransitionAlpha
    /\ \E at \in TwinDraw(205, alpha', 1 .. AlphaGridLen) :
         twin' = [twin EXCEPT !.alpha = at, !.ret = NoRet, !.mine = NoRet]

\* transition_column_hypers in both views
TwinTransitionColumnHypers ==
    /\ TransitionColumnHypers
    /\ twin' = [twin EXCEPT !.ret = NoRet, !.mine = NoRet]

\* simulate(rowid, query, evidence, N) in both views: the clusters are
\* drawn at line 283 and the indices at line 325
TwinSimulate(rowid, query, evidence, N) ==
    /\ pc.phase = "idle"
    /\ \E lpE \in EvidenceVectors(dims, Zr, Nk, rowid, evidence) :
         \E ks \in ClusterDraws(Zr, "simulate", rowid, lpE, N),
            ix \in ResampleDraws(dims, query, evidence, N) :
           \E kt \in TwinDraw(283, ks, ClusterDraws(twin.Zr, "simulate",
                                                    rowid, lpE, N)),
              it \in TwinDraw(325, ix, ResampleDraws(twin.dims, query,
                                                     evidence, N)) :
             \E r \in {QueryOutcome(dims, Zr, "simulate", rowid, query,
                                    evidence, lpE, ks, N)},
                r2 \in {QueryOutcome(twin.dims, twin.Zr, "simulate", rowid,
                                     query, evidence, lpE, kt, N)} :
               /\ op' = QueryRecord("simulate", rowid, query, evidence, N,
                                    lpE, r)
               /\ twin' = [twin EXCEPT
                             !.mine = Ret(r.res, r.samples, <<ks, ix>>),
                             !.ret = Ret(r2.res, r2.samples, <<kt, it>>)]
    /\ UNCHANGED <<Zr, Nk, alpha, dims, pc>>

\* the two views are given the same calls
NextTwin ==
    \/ \E rowid \in Rows, label \in Labels : TwinIncorporate(rowid, label)
    \/ \E rowid \in Rows : TwinUnincorporate(rowid)
    \/ \E c \in Cols, conditional \in BOOLEAN :
         TwinIncorporateDim(c, conditional)
    \/ TwinTransition(1)
    \/ TwinTransitionRowStep
    \/ TwinTransitionAlpha
    \/ TwinTransitionColumnHypers
    \/ \E rowid \in {-1, 0}, c \in Cols :
         \E evidence \in SUBSET (Cols \ {c}) :
           TwinSimulate(rowid, {c}, evidence, 1)

SpecTwin == InitTwin /\ [][NextTwin]_vars

---------------------------------------------------------------------------
(* Partition consistency.                                                  *)

C2_NoEmptyCluster ==
    \A k \in 1 .. Len(Nk) :
        /\ Nk[k] = Cardinality({r \in DOMAIN Zr : Zr[r] = k - 1})
        /\ Nk[k] > 0

---------------------------------------------------------------------------
(* unincorporate and incorporate of a row.                                 *)

\* the view is the one the undone unincorporate started from
C3_Restored ==
    /\ Zr = op.before.Zr
    /\ Nk = op.before.Nk
    /\ dims = op.before.dims

\* the last operation put back, under its label, the row that the
\* operation before it had unincorporated
C3_Undone == (op.name = "incorporate") /\ op.undo /\ (op.res = "ok")

\* C3, as claimed: unincorporate(r) followed by incorporate(r, label k)
\* restores the row-to-label map, the occupancy array and the cluster
\* records of every column, also when r was alone in a cluster k < K-1.
C3_RoundTrip == C3_Undone => C3_Restored

\* C3, amended: the round trip restores the view whenever r was not the
\* only member of its cluster k, or k was the highest label K-1.
C3_RoundTripAmended ==
    (C3_Undone /\ ((op.before.Nk[op.label + 1] > 1)
                      \/ (op.label = Len(op.before.Nk) - 1)))
        => C3_Restored

\* the only member of the highest of two or more clusters was put back,
\* in a view with a column
C3_Witness ==
    /\ C3_Undone
    /\ op.before.Nk[op.label + 1] = 1
    /\ op.label = Len(op.before.Nk) - 1
    /\ Len(op.before.Nk) >= 2
    /\ DOMAIN dims # {}

\* C4: unincorporate(r) of a row with label k removes r from the map and
\* decrements the occupancy of k; at occupancy 0 the entry k leaves the
\* occupancy array and the record k leaves every column, the labels above
\* k drop by one and the labels below k stay; otherwise no label changes.
C4_UnincorporateEffect ==
    ((op.name = "unincorporate") /\ (op.res = "ok")) =>
        LET b == op.before
            k == op.label
        IN  /\ DOMAIN Zr = DOMAIN b.Zr \ {op.rowid}
            /\ DOMAIN dims = DOMAIN b.dims
            /\ \A d \in DOMAIN dims : \A j \in DOMAIN dims[d].clusters :
                  op.rowid \notin dims[d].clusters[j]
            /\ IF b.Nk[k + 1] = 1
               THEN /\ Nk = RemoveAt(b.Nk, k + 1)
                    /\ \A r \in DOMAIN Zr :
                          Zr[r] = IF b.Zr[r] > k THEN b.Zr[r] - 1
                                  ELSE b.Zr[r]
                    /\ \A d \in DOMAIN dims :
                          dims[d].clusters =
                              RemoveAt(b.dims[d].clusters, k + 1)
               ELSE /\ Nk = [b.Nk EXCEPT ![k + 1] = @ - 1]
                    /\ \A r \in DOMAIN Zr : Zr[r] = b.Zr[r]
                    /\ \A d \in DOMAIN dims :
                          Len(dims[d].clusters) = Len(b.dims[d].clusters)

\* the only member of a cluster below the highest one was unincorporated
\* from a view with a column
C4_Witness ==
    /\ op.name = "unincorporate"
    /\ op.res = "ok"
    /\ op.before.Nk[op.label + 1] = 1
    /\ op.label < Len(op.before.Nk) - 1
    /\ DOMAIN dims # {}

\* C5: incorporate without a cluster label draws the label among the K
\* existing ones and a new one, and then runs a row-transition step
\* restricted to that row.
C5_UnlabelledRowIsTransitioned ==
    ((op.name = "incorporate") /\ (op.label = NA) /\ (op.res = "ok"))
        => (op.trans = <<op.rowid>>)

\* C6: incorporate with a label outside 0..K is rejected with an error.
C6_LabelOutOfRangeRejected ==
    [][((op'.name = "incorporate") /\ (op'.label # NA)
           /\ ((op'.label < 0) \/ (op'.label > Len(Nk))))
        => (op'.res # "ok")]_vars

---------------------------------------------------------------------------
(* Columns.                                                                *)

\* C7: incorporate_dim of a conditional column is rejected whenever no
\* unconditional column is attached at that moment.
C7_ConditionalNeedsUnconditional ==
    [][((op'.name = "incorporate_dim") /\ op'.cond /\ op'.reassign
           /\ (UnconditionalDims(dims) = {}))
        => (op'.res # "ok")]_vars

---------------------------------------------------------------------------
(* logpdf and simulate.                                                    *)

C_IsQuery == op.name \in {"logpdf", "simulate"}

\* C8: logpdf and simulate treat a rowid as observed iff it is a key of
\* the row-to-label map.
C8_ObservedIffInPartition ==
    C_IsQuery => (op.observed <=> (op.rowid \in DOMAIN Zr))

\* C9: logpdf and simulate, returning or raising, leave the row-to-label
\* map, the occupancy counts, alpha, the set of attached columns and the
\* number of cluster records of every column unchanged.
C9_QueriesChangeNothing ==
    [][(op'.name \in {"logpdf", "simulate"}) =>
          /\ Zr' = Zr
          /\ Nk' = Nk
          /\ alpha' = alpha
          /\ DOMAIN dims' = DOMAIN dims
          /\ \A d \in DOMAIN dims :
                Len(dims'[d].clusters) = Len(dims[d].clusters)]_vars

\* a query with evidence on a column raised for a hypothetical row
C9_Witness ==
    /\ C_IsQuery
    /\ ~op.observed
    /\ op.res = "InfEvidence"
    /\ op.evidence # {}
    /\ Len(Nk) >= 2

\* C10: a hypothetical-row query raises the evidence error iff the evidence
\* log likelihood is -infinity under every one of the K+1 candidates; it
\* returns when one candidate is finite, and never raises it with empty
\* evidence.
C10_InfEvidenceIffAllInfinite ==
    (C_IsQuery /\ ~op.observed) =>
        /\ Len(op.lpE) = Len(Nk) + 1
        /\ (op.res = "InfEvidence") <=> (\A k \in DOMAIN op.lpE : ~op.lpE[k])
        /\ (\E k \in DOMAIN op.lpE : op.lpE[k]) => (op.res = "ok")
        /\ (op.evidence = {}) => (op.res # "InfEvidence")

\* C11: a logpdf or simulate call whose query or evidence names a column
\* that is not attached to the view is rejected with an error.
C11_UnknownColumnRejected ==
    (C_IsQuery /\ ~((op.query \cup op.evidence) \subseteq DOMAIN dims))
        => (op.res # "ok")

\* C12: simulate(rowid, query, evidence, N) returns exactly N samples, for
\* observed and hypothetical rows and on the exact and the importance
\* path, and every sample has exactly one value per query column.
C12_ExactlyNSamples ==
    ((op.name = "simulate") /\ (op.res = "ok")) =>
        /\ Len(op.samples) = op.n
        /\ \A i \in DOMAIN op.samples :
              Len(op.samples[i]) = Cardinality(op.query)

\* two samples of a root column were simulated for a hypothetical row of a
\* view of two or more clusters
C12_Witness ==
    /\ op.name = "simulate"
    /\ op.res = "ok"
    /\ ~op.observed
    /\ op.n = 2
    /\ op.query # {}
    /\ op.query \subseteq UnconditionalDims(dims)
    /\ Len(Nk) >= 2

\* C15: update_cctype(col, cctype) on an attached column leaves the
\* row-to-label map, the occupancy counts, alpha and the set of attached
\* columns unchanged; afterwards col has a fresh model of the new family
\* with exactly K records built from the current partition, and a
\* conditional family has the unconditional columns other than col as
\* inputs.
C15_UpdateCctypeEffect ==
    [][((op'.name = "update_cctype") /\ (op'.res = "ok")) =>
          /\ op'.col \in DOMAIN dims
          /\ <<Zr, Nk, alpha>>' = <<Zr, Nk, alpha>>
          /\ DOMAIN dims' = DOMAIN dims
          /\ LET D == dims'[op'.col]
             IN  /\ D.cond = op'.cond
                 /\ Len(D.clusters) = Len(Nk)
                 /\ \A k \in DOMAIN D.clusters :
                       D.clusters[k] = {r \in DOMAIN Zr :
                           (Zr[r] = k - 1) /\ ~IsNan(op'.col, r)}
                 /\ D.inputs = IF op'.cond
                               THEN UnconditionalDims(dims') \ {op'.col}
                               ELSE {}]_vars

\* an unconditional column became conditional next to another
\* unconditional column, in a view of two or more clusters
C15_Witness ==
    /\ op.name = "update_cctype"
    /\ op.res = "ok"
    /\ op.cond
    /\ ~op.before.dims[op.col].cond
    /\ dims[op.col].inputs # {}
    /\ Len(Nk) >= 2

---------------------------------------------------------------------------
(* logpdf_score.                                                           *)

\* the grouping of the rows: the sets of rows that share a label, in any
\* fixed order
C16_Grouping == Sorted({SetMin({r \in DOMAIN Zr : Zr[r] = k}) : k \in Range(Zr)})

\* the rows grouped with the row g
C16_Group(g) == {r \in DOMAIN Zr : Zr[r] = Zr[g]}

\* the score of the grouping, whatever the labels and the order in which
\* the rows came: occupancy counts are the sizes of the groups, the
\* records of a column hold the rows of a group without its missing values
C16_ScoreOfGrouping ==
    [crp  |-> [n |-> Cardinality(DOMAIN Zr),
               counts |-> Multiset([i \in DOMAIN C16_Grouping |->
                             Cardinality(C16_Group(C16_Grouping[i]))]),
               alpha |-> alpha],
     dims |-> [d \in DOMAIN dims |->
                 [cond  |-> dims[d].cond,
                  stats |-> Multiset([i \in DOMAIN C16_Grouping |->
                               {r \in C16_Group(C16_Grouping[i]) :
                                   ~IsNan(d, r)}])]]]

\* C16: for fixed rows and a fixed grouping of the rows into clusters, the
\* multiset of occupancy counts, the per-cluster contents of every column
\* and hence logpdf_score are the same whatever the order of the
\* incorporate and unincorporate calls that led to the grouping.
C16_ScoreDependsOnGroupingOnly ==
    LogpdfScore(View, alpha) = C16_ScoreOfGrouping

\* all rows are back, the last one incorporated under label 0 while row 0
\* has the highest of two or more labels, in a view with a column
C16_Witness ==
    /\ op.name = "incorporate"
    /\ op.res = "ok"
    /\ op.rowid = NRows - 1
    /\ DOMAIN Zr = Rows
    /\ Zr[NRows - 1] = 0
    /\ Len(Nk) >= 2
    /\ Zr[0] = Len(Nk) - 1
    /\ DOMAIN dims # {}

---------------------------------------------------------------------------
(* Inference.                                                              *)

\* C13: alpha is changed only by transition_alpha; after every
\* transition_alpha alpha is a point of the grid, and every point of the
\* grid lies in [1/num_rows, num_rows], num_rows being the number of
\* observed rows of the view when the transition runs.
C13_AlphaOnGridOfObservedRows ==
    [][/\ (alpha' # alpha) => (op'.name = "transition_alpha")
       /\ (op'.name = "transition_alpha") =>
             /\ alpha' \in 1 .. AlphaGridLen
             /\ GridWithin(AlphaGridRows, Cardinality(DOMAIN Zr'))]_vars

\* C14: transition(N) performs exactly N rounds; each round runs one row
\* sweep over all observed rows, then one alpha transition, then one
\* hyperparameter transition of every attached column; no kernel of a
\* round starts before the three kernels of the round before it have
\* finished, and transition(0) changes nothing.
C14_RoundsInOrder ==
    [][/\ ((op'.name = "transition") /\ (op'.n = 0)) =>
             /\ pc' = Idle
             /\ <<Zr, Nk, alpha, dims>>' = <<Zr, Nk, alpha, dims>>
       /\ (pc.phase = "rows") =>
             /\ op'.name = "transition_row"
             /\ pc.kernels[1] = pc.kernels[2]
             /\ pc.kernels[2] = pc.kernels[3]
             /\ pc.kernels[1] < pc.n
       /\ (pc.phase = "alpha") =>
             /\ op'.name = "transition_alpha"
             /\ pc.visited = Sorted(DOMAIN Zr)
             /\ pc.kernels[1] = pc.kernels[2] + 1
             /\ pc.kernels[2] = pc.kernels[3]
       /\ (pc.phase = "hypers") =>
             /\ op'.name = "transition_column_hypers"
             /\ op'.cols = DOMAIN dims
             /\ pc.kernels[1] = pc.kernels[2]
             /\ pc.kernels[2] = pc.kernels[3] + 1
       /\ ((pc.phase # "idle") /\ (pc'.phase = "idle")
              /\ (op'.res = "ok")) =>
             /\ op'.done
             /\ op'.kernels = <<op'.n, op'.n, op'.n>>]_vars

\* a transition(2) has returned in a view of two or more clusters and a
\* column
C14_Witness ==
    /\ op.name = "transition_column_hypers"
    /\ op.done
    /\ op.n = 2
    /\ op.kernels = <<2, 2, 2>>
    /\ Len(Nk) >= 2
    /\ DOMAIN dims # {}

---------------------------------------------------------------------------
(* The row-transition step.                                                *)

\* a row-transition step has moved its row to the drawn label
C18_Moved ==
    /\ op.name = "transition_row"
    /\ op.res = "ok"
    /\ op.label # op.before.Zr[op.rowid]

\* C18: when the drawn label z differs from the row's label, after the
\* step the row shares its cluster with exactly the rows that carried z
\* when the weights were computed, is alone in a new cluster only if z was
\* the new-cluster label, and all other rows stay grouped as before, also
\* when the row was the only member of its old cluster.
C18_RowJoinsDrawnCluster ==
    C18_Moved =>
        LET b      == op.before.Zr
            others == DOMAIN Zr \ {op.rowid}
            mates  == {r \in others : Zr[r] = Zr[op.rowid]}
        IN  /\ mates = {r \in others : b[r] = op.label}
            /\ (mates = {}) => (op.label = Len(op.before.Nk))
            /\ \A r1 \in others : \A r2 \in others :
                  (Zr[r1] = Zr[r2]) <=> (b[r1] = b[r2])

\* the row of the last row-transition step was the only member of its
\* cluster when the step began
C19_Singleton == op.before.Nk[op.before.Zr[op.rowid] + 1] = 1

\* C19, as claimed: a row-transition step scores K+1 candidates, the K
\* existing labels and one new cluster, also when the row is the only
\* member of its cluster, and the data-likelihood vector and the CRP-weight
\* vector have the same length.
C19_AlwaysOneMoreCandidate ==
    (op.name = "transition_row") =>
        /\ op.ndata = Len(op.before.Nk) + 1
        /\ op.ndata = op.ncrp

\* C19, amended: a row-transition step scores the K existing labels and
\* one new cluster when the row shares its cluster, and the K existing
\* labels only when the row is the only member of its cluster; the two
\* vectors have the same length.
C19_CandidatesAmended ==
    (op.name = "transition_row") =>
        /\ op.ndata = IF C19_Singleton THEN Len(op.before.Nk)
                      ELSE Len(op.before.Nk) + 1
        /\ op.ndata = op.ncrp

\* the only member of a cluster was scored in a view of two or more
\* clusters and a column
C19_Witness ==
    /\ op.name = "transition_row"
    /\ C19_Singleton
    /\ Len(op.before.Nk) >= 2
    /\ DOMAIN dims # {}

\* C20: when the scoring of a row-transition step is over, the
\* row-to-label map, the occupancy counts and the records of every column
\* are what they were before the scoring, and the row is scored against
\* the state left by the step before it.
C20_ScoringRestoresView ==
    [][(op'.name = "transition_row") =>
          /\ op'.before = View
          /\ op'.scored = op'.before]_vars

\* a row that shares its cluster was scored after another row of the sweep,
\* in a view with a column that has a value for it
C20_Witness ==
    /\ op.name = "transition_row"
    /\ op.res = "ok"
    /\ ~C19_Singleton
    /\ Len(pc.visited) >= 2
    /\ \E d \in DOMAIN dims : ~IsNan(d, op.rowid)

---------------------------------------------------------------------------
(* Determinism.                                                            *)

---------------------------------------------------------------------------
(* incorporate_dim.                                                        *)

\* the rows s are each observed row once, in nondecreasing order of label
C21_EachRowOnceByLabel(s, zr) ==
    /\ Len(s) = Cardinality(DOMAIN zr)
    /\ {s[i] : i \in DOMAIN s} = DOMAIN zr
    /\ \A i \in DOMAIN s : \A j \in DOMAIN s :
          (i < j) => (zr[s[i]] <= zr[s[j]])

\* C21: incorporate_dim with reassign=True shows the column in the column
\* map only after its records were rebuilt by incorporating every observed
\* row once in nondecreasing order of label, ending with K records, and
\* after one hyperparameter transition was run on the column; a rejected
\* call leaves the column map unchanged.
C21_VisibleAfterRebuildAndHypers ==
    [][((op'.name = "incorporate_dim") /\ op'.reassign) =>
          IF op'.res = "ok"
          THEN /\ op'.col \in DOMAIN dims'
               /\ C21_EachRowOnceByLabel(op'.rows, Zr)
               /\ Len(dims'[op'.col].clusters) = Len(Nk)
               /\ op'.after = <<"transition_hypers">>
          ELSE dims' = dims]_vars

---------------------------------------------------------------------------
(* The importance sampler.                                                 *)

\* the evidence of the last query as _simulate_joint received it
C22_Evidence ==
    IF op.observed THEN PopulatedEvidence(dims, op.query, op.evidence)
    ELSE op.evidence

\* the last call was a simulate that returned samples of
\* _weighted_samples
C22_Sampled ==
    /\ op.name = "simulate"
    /\ op.res = "ok"
    /\ ~NoLeafs(dims, op.query, C22_Evidence)

\* C22: every joint draw of _weighted_samples holds exactly one value per
\* attached column in ascending column order; a column of the evidence,
\* root or leaf, carries its evidence value and is not simulated, and only
\* the columns absent from the evidence are simulated.
C22_OneValuePerColumn ==
    C22_Sampled =>
        /\ JointDrawCols(dims, Sorted(DOMAIN dims), C22_Evidence)
              = Sorted(DOMAIN dims)
        /\ SimulatedCols(dims, C22_Evidence) = DOMAIN dims \ C22_Evidence

\* the last call was a simulate of attached columns that reached
\* _importance_resample
C23_Resampled ==
    /\ op.name = "simulate"
    /\ op.query # {}
    /\ (op.query \cup op.evidence) \subseteq DOMAIN dims
    /\ op.res \in {"ok", "IndexError"}
    /\ ~NoLeafs(dims, op.query, C22_Evidence)

\* C23: on the importance-resampling path of simulate the value returned
\* for a query column q is the value the selected joint draw holds for
\* column q, for every set of attached column ids.
C23_ReturnsValueOfQueryColumn ==
    C23_Resampled =>
        /\ op.res = "ok"
        /\ \A i \in DOMAIN op.samples : op.samples[i] = Sorted(op.query)

---------------------------------------------------------------------------
(* Failed calls.                                                           *)

\* C24: update_cctype either completes with column col attached under the
\* new family, or is rejected with the column map as it was before the
\* call; it never ends with column col removed from the view.
C24_UpdateCctypeAllOrNothing ==
    [][(op'.name = "update_cctype") =>
          IF op'.res = "ok"
          THEN /\ op'.col \in DOMAIN dims'
               /\ dims'[op'.col].cond = op'.cond
          ELSE dims' = dims]_vars

\* C25: if incorporate fails, because the label is greater than K or
\* because the values lack an entry for an attached column, the
\* row-to-label map, the occupancy counts and the records of every column
\* are the same as before the call.
C25_FailedIncorporateChangesNothing ==
    [][((op'.name = "incorporate") /\ (op'.res # "ok")) =>
          /\ Zr' = Zr
          /\ Nk' = Nk
          /\ dims' = dims]_vars

---------------------------------------------------------------------------
(* The defensive assertions.                                               *)

\* C26: the assertions of _check_partitions, checked at the end of every
\* row-transition step, hold in every state reached through the public
\* operations with valid arguments, also in a sweep run after a row was
\* unincorporated or a fresh row was incorporated: no step aborts on them.
C26_SweepNeverAborts ==
    (op.name = "transition_row") =>
        /\ CheckPartitions(View)
        /\ op.res # "AssertionError"

=============================================================================
